---- MODULE Spec2Model ----
(***************************************************************************)
(* Model of src/utils/Integrated_approach.py: the single-server hub queue  *)
(* (simulate_hub_queue), the Monte Carlo engine                            *)
(* (monte_carlo_delivery_simulation) with its module-level configuration,  *)
(* and the statistical summary the script prints.                          *)
(*                                                                         *)
(* Numbers.  The source computes in IEEE doubles.  The model uses exact    *)
(* integers on two grids:                                                  *)
(*   - hours are counted in ticks (one tick is an arbitrary positive       *)
(*     fraction of an hour); an exponential sample is any tick count from  *)
(*     0 up to a bound, whatever the (positive) rate, because the support  *)
(*     of the exponential distribution is [0, oo) for every rate;          *)
(*   - days are counted in units of 1/DayDen day, so that the division by  *)
(*     8 of line 44 is computed, and is exact as a division by a power of  *)
(*     two is exact in binary floating point.                              *)
(* Probabilities and np.random.rand() samples are counted in units of      *)
(* 1/ProbScale: rand() lies in [0, 1), i.e. in 0 .. ProbScale-1.           *)
(* Python's 0-based index i is the model's index i+1.                      *)
(***************************************************************************)
EXTENDS Integers, Sequences, FiniteSets, TLC

\* ------------------------------------------------------------------ bounds
\* Largest trial count (N_SIMULATIONS and the engine's n_simulations).
MaxN == 2
\* Largest num_parcels of a direct call of simulate_hub_queue.
MaxParcels == 3
\* Largest exponential sample of an engine run, in hour ticks.
MaxSample == 1
\* Largest exponential sample of a direct call of simulate_hub_queue.
MaxQueueSample == 2
\* Resolution of the probability grid.
ProbScale == 2
\* Engine runs recorded in one process (seeded specification).
MaxRuns == 2

\* ------------------------------------------------------- program constants
BASE_DELIVERY_TIME == 3
HOURS_PER_DAY == 8
\* Day values are held in units of 1/DayDen day.
DayDen == HOURS_PER_DAY
\* The configured rates of lines 16-17 and the invalid values tried with them.
ArrivalRates == {-500, 0, 500}
ServiceRates == {-550, 0, 550}

VARIABLES
  \* module-level configuration (lines 5-17)
  N_SIMULATIONS, WEATHER_PROB, WEATHER_DELAY_DAYS, STRIKE_PROB,
  STRIKE_DELAY_DAYS, ARRIVAL_RATE, SERVICE_RATE,
  \* the frame of a direct call of simulate_hub_queue (lines 24-45)
  num_parcels, arrival_times, service_times, start_service_times,
  departure_times, waiting_times, waiting_days, i, queue_pc,
  \* the frame of monte_carlo_delivery_simulation (lines 48-62)
  n_simulations, queuing_delays, weather_occurs, strike_occurs,
  total_external_delay, total_delivery_times, pc, outcome, draws,
  \* the statistical summary (lines 68-71)
  summary,
  \* the global generator np.random and the runs made with it
  seed, rng_state, runs

configVars == <<N_SIMULATIONS, WEATHER_PROB, WEATHER_DELAY_DAYS, STRIKE_PROB,
                STRIKE_DELAY_DAYS, ARRIVAL_RATE, SERVICE_RATE>>
queueVars == <<num_parcels, arrival_times, service_times, start_service_times,
               departure_times, waiting_times, waiting_days, i, queue_pc>>
engineVars == <<n_simulations, queuing_delays, weather_occurs, strike_occurs,
                total_external_delay, total_delivery_times, pc, outcome, draws>>
seedVars == <<seed, rng_state, runs>>
vars == <<configVars, queueVars, engineVars, summary, seedVars>>

\* ----------------------------------------------------------------- helpers
\* Python's max of two numbers (line 39).
Max(a, b) == IF a >= b THEN a ELSE b

\* np.zeros(n) (lines 31-33).
Zeros(n) == [k \in 1..n |-> 0]

RECURSIVE PrefixSum(_, _)
PrefixSum(s, k) == IF k = 0 THEN 0 ELSE PrefixSum(s, k - 1) + s[k]

\* np.cumsum (line 27).
CumSum(s) == [k \in 1..Len(s) |-> PrefixSum(s, k)]

\* The batches np.random.exponential(scale, n) can return (scale > 0), up
\* to a largest sample.
ExponentialBatches(n, largest) == [1..n -> 0..largest]

\* What evaluating np.random.exponential(1/rate, n) raises (lines 26, 29):
\* 1/0 raises ZeroDivisionError before the call; a negative scale is
\* rejected by numpy with ValueError before it samples.
ExponentialError(rate) ==
  IF rate = 0 THEN "ZeroDivisionError"
  ELSE IF rate < 0 THEN "ValueError"
  ELSE "ok"

\* ------------------------------------------------- simulate_hub_queue
StartServiceIgnoresServer(arrival, departure, k) == arrival[k]

StartServiceFromZeros(arrival, departure, k) ==
  IF k = 1 THEN 0 ELSE Max(arrival[k], departure[k - 1])

\* Lines 36-39: the service start of parcel k.
StartService(arrival, departure, k) ==
  IF k = 1 THEN arrival[k] ELSE Max(arrival[k], departure[k - 1])

WaitingTimeReversed(start, arrival) == arrival - start

\* Line 40.
WaitingTime(start, arrival) == start - arrival

\* Line 41.
DepartureTime(start, service) == start + service

HoursToDaysNoDivision(h) == h * DayDen * HOURS_PER_DAY

\* Line 44: waiting_times / 8, as a day value.
HoursToDays(h) == (h * DayDen) \div HOURS_PER_DAY

\* One iteration of the loop of lines 35-41 on the three result arrays.
LoopBody(loc, k) ==
  LET start == StartService(loc.arrival, loc.departure, k)
  IN  [loc EXCEPT !.start[k] = start,
                  !.waiting[k] = WaitingTime(start, loc.arrival[k]),
                  !.departure[k] = DepartureTime(start, loc.service[k])]

RECURSIVE RunLoop(_, _)
RunLoop(loc, k) ==
  IF k > Len(loc.arrival) THEN loc ELSE RunLoop(LoopBody(loc, k), k + 1)

\* The locals of simulate_hub_queue before the loop (lines 26-33).
QueueLocals(inter, service) ==
  [arrival |-> CumSum(inter), service |-> service,
   start |-> Zeros(Len(inter)), departure |-> Zeros(Len(inter)),
   waiting |-> Zeros(Len(inter))]

\* The value simulate_hub_queue returns for given samples (lines 26-45).
SimulateHubQueue(inter, service) ==
  LET loc == RunLoop(QueueLocals(inter, service), 1)
  IN  [k \in 1..Len(inter) |-> HoursToDays(loc.waiting[k])]

\* The current frame as the record LoopBody works on.
Frame ==
  [arrival |-> arrival_times, service |-> service_times,
   start |-> start_service_times, departure |-> departure_times,
   waiting |-> waiting_times]

\* ------------------------------------------------- statistical summary
\* A float as a fraction; 0/0 is NaN.
NaN == [num |-> 0, den |-> 0]

\* np.mean of a 1-d array (lines 68, 70, 71): NaN (and a RuntimeWarning,
\* which is no exception) for an empty array.
Mean(s) == IF Len(s) = 0 THEN NaN ELSE [num |-> PrefixSum(s, Len(s)), den |-> Len(s)]

\* The k-th smallest element of a non-empty array.
KthSmallest(s, k) ==
  CHOOSE v \in {s[j] : j \in 1..Len(s)} :
    /\ Cardinality({j \in 1..Len(s) : s[j] < v}) < k
    /\ Cardinality({j \in 1..Len(s) : s[j] <= v}) >= k

\* np.median (line 69): the mean of the two middle elements; NaN for an
\* empty array.
Median(s) ==
  IF Len(s) = 0 THEN NaN
  ELSE [num |-> KthSmallest(s, (Len(s) + 1) \div 2)
                  + KthSmallest(s, (Len(s) + 2) \div 2),
        den |-> 2]

\* total_times > days, elementwise, as 0/1 (lines 70-71).
Exceeds(s, days) == [k \in 1..Len(s) |-> IF s[k] > days * DayDen THEN 1 ELSE 0]

NoSummary ==
  [status |-> "none", mean |-> NaN, median |-> NaN, over3 |-> NaN, over5 |-> NaN]

QueueIdle ==
  /\ num_parcels = 0
  /\ arrival_times = <<>>
  /\ service_times = <<>>
  /\ start_service_times = <<>>
  /\ departure_times = <<>>
  /\ waiting_times = <<>>
  /\ waiting_days = <<>>
  /\ i = 0
  /\ queue_pc = "idle"

EngineIdle ==
  /\ n_simulations = 0
  /\ queuing_delays = <<>>
  /\ weather_occurs = <<>>
  /\ strike_occurs = <<>>
  /\ total_external_delay = <<>>
  /\ total_delivery_times = <<>>
  /\ pc = "idle"
  /\ outcome = "none"
  /\ draws = 0

SeedIdle ==
  /\ seed = 0
  /\ rng_state = 0
  /\ runs = <<>>

InitQueue ==
  /\ ARRIVAL_RATE \in ArrivalRates
  /\ SERVICE_RATE \in ServiceRates
  /\ N_SIMULATIONS = 0
  /\ WEATHER_PROB = 0
  /\ WEATHER_DELAY_DAYS = <<>>
  /\ STRIKE_PROB = 0
  /\ STRIKE_DELAY_DAYS = <<>>
  /\ QueueIdle
  /\ EngineIdle
  /\ summary = NoSummary
  /\ SeedIdle

\* Lines 24-33: the call simulate_hub_queue(ARRIVAL_RATE, SERVICE_RATE, n) up
\* to the loop, or to the error the sampling raises.  One call is followed
\* per behaviour: a later call starts from fresh locals.
QueueCall ==
  /\ queue_pc = "idle"
  /\ \E n \in 0..MaxParcels :
       /\ num_parcels' = n
       /\ start_service_times' = IF ExponentialError(ARRIVAL_RATE) = "ok"
                                    /\ ExponentialError(SERVICE_RATE) = "ok"
                                 THEN Zeros(n) ELSE <<>>
       /\ departure_times' = start_service_times'
       /\ waiting_times' = start_service_times'
       /\ waiting_days' = <<>>
       /\ i' = 0
       /\ IF ExponentialError(ARRIVAL_RATE) # "ok"
          THEN /\ queue_pc' = ExponentialError(ARRIVAL_RATE)
               /\ arrival_times' = <<>>
               /\ service_times' = <<>>
          ELSE \E inter \in ExponentialBatches(n, MaxQueueSample) :
                 /\ arrival_times' = CumSum(inter)
                 /\ IF ExponentialError(SERVICE_RATE) # "ok"
                    THEN /\ queue_pc' = ExponentialError(SERVICE_RATE)
                         /\ service_times' = <<>>
                    ELSE /\ queue_pc' = "loop"
                         /\ service_times' \in ExponentialBatches(n, MaxQueueSample)
  /\ UNCHANGED <<configVars, engineVars, summary, seedVars>>

\* Lines 35-41: one iteration of the loop.
QueueLoopStep ==
  /\ queue_pc = "loop"
  /\ i < num_parcels
  /\ LET loc == LoopBody(Frame, i + 1)
     IN  /\ start_service_times' = loc.start
         /\ waiting_times' = loc.waiting
         /\ departure_times' = loc.departure
  /\ i' = i + 1
  /\ UNCHANGED <<num_parcels, arrival_times, service_times, waiting_days, queue_pc>>
  /\ UNCHANGED <<configVars, engineVars, summary, seedVars>>

\* Lines 43-45: the conversion to days and the return.
QueueReturn ==
  /\ queue_pc = "loop"
  /\ i = num_parcels
  /\ waiting_days' = [k \in 1..num_parcels |-> HoursToDays(waiting_times[k])]
  /\ queue_pc' = "returned"
  /\ UNCHANGED <<num_parcels, arrival_times, service_times, start_service_times,
                 departure_times, waiting_times, i>>
  /\ UNCHANGED <<configVars, engineVars, summary, seedVars>>

NextQueue == QueueCall \/ QueueLoopStep \/ QueueReturn

SpecQueue == InitQueue /\ [][NextQueue]_vars

\* ------------------------------------- monte_carlo_delivery_simulation
\* The values np.random.randint(low, high) can return: high is exclusive.
RandInt(low, high) == low..(high - 1)

\* The probabilities tried for WEATHER_PROB and STRIKE_PROB, in units of
\* 1/ProbScale: the whole range [0, 1] and one value on either side of it.
Probs == (0 - 1)..(ProbScale + 1)

\* The batches np.random.rand(n) can return: samples of [0, 1).
RandBatches(n) == [1..n -> 0..(ProbScale - 1)]

OccursInclusive(u, prob) == u <= prob

\* Lines 53-54: the comparison rand() < prob.
Occurs(u, prob) == u < prob

\* The length numpy gives the elementwise result of two 1-d arrays of
\* lengths a and b, or -1 where it raises ValueError (shapes that cannot be
\* broadcast together).
BroadcastLen(a, b) ==
  IF a = b THEN a ELSE IF a = 1 THEN b ELSE IF b = 1 THEN a ELSE 0 - 1

\* Element k of a 1-d array in an elementwise operation: a one-element
\* array is broadcast.
At(s, k) == IF Len(s) = 1 THEN s[1] ELSE s[k]

\* bool * int in numpy (line 56).
BoolTimes(b, d) == IF b THEN d ELSE 0

ExternalDelayExclusive(w, wd, s, sd) == IF w THEN wd ELSE BoolTimes(s, sd)

\* Lines 56-57, one element: integer days.
ExternalDelay(w, wd, s, sd) == BoolTimes(w, wd) + BoolTimes(s, sd)

\* A number of whole days as a day value.
Days(d) == d * DayDen

TotalDeliveryTimeNoBase(q, e) == q + Days(e)

\* Line 60, one element: a day value.
TotalDeliveryTime(q, e) == Days(BASE_DELIVERY_TIME) + q + Days(e)

\* The module-level arrays of lines 10 and 13, drawn when the module loads.
LoadDelayDays ==
  /\ N_SIMULATIONS \in 0..MaxN
  /\ WEATHER_DELAY_DAYS \in [1..N_SIMULATIONS -> RandInt(1, 3)]
  /\ STRIKE_DELAY_DAYS \in [1..N_SIMULATIONS -> RandInt(2, 4)]

\* The module loaded (lines 1-62) with parameters inside their domains: the
\* configured rates, and probabilities anywhere in [0, 1].
Init ==
  /\ LoadDelayDays
  /\ WEATHER_PROB \in 0..ProbScale
  /\ STRIKE_PROB \in 0..ProbScale
  /\ ARRIVAL_RATE = 500
  /\ SERVICE_RATE = 550
  /\ QueueIdle
  /\ EngineIdle
  /\ summary = NoSummary
  /\ SeedIdle

\* The module loaded with any parameters, valid or not.
InitAnyParams ==
  /\ LoadDelayDays
  /\ WEATHER_PROB \in Probs
  /\ STRIKE_PROB \in Probs
  /\ ARRIVAL_RATE \in ArrivalRates
  /\ SERVICE_RATE \in ServiceRates
  /\ QueueIdle
  /\ EngineIdle
  /\ summary = NoSummary
  /\ SeedIdle

\* Lines 48-50: monte_carlo_delivery_simulation(n) is called and runs
\* simulate_hub_queue(ARRIVAL_RATE, SERVICE_RATE, n), which returns the
\* queueing delays or raises.  One call is followed per behaviour.
EngineCall ==
  /\ pc = "idle"
  /\ outcome = "none"
  /\ \E n \in 0..MaxN :
       /\ n_simulations' = n
       /\ IF ExponentialError(ARRIVAL_RATE) # "ok"
          THEN /\ outcome' = ExponentialError(ARRIVAL_RATE)
               /\ draws' = 0
               /\ pc' = "idle"
               /\ queuing_delays' = <<>>
          ELSE IF ExponentialError(SERVICE_RATE) # "ok"
          THEN /\ outcome' = ExponentialError(SERVICE_RATE)
               /\ draws' = n
               /\ pc' = "idle"
               /\ queuing_delays' = <<>>
          ELSE /\ outcome' = "none"
               /\ draws' = 2 * n
               /\ pc' = "weather"
               /\ \E inter \in ExponentialBatches(n, MaxSample),
                     service \in ExponentialBatches(n, MaxSample) :
                    queuing_delays' = SimulateHubQueue(inter, service)
  /\ weather_occurs' = <<>>
  /\ strike_occurs' = <<>>
  /\ total_external_delay' = <<>>
  /\ total_delivery_times' = <<>>
  /\ summary' = NoSummary
  /\ UNCHANGED <<configVars, queueVars, seedVars>>

\* Line 53.
DrawWeather ==
  /\ pc = "weather"
  /\ \E u \in RandBatches(n_simulations) :
       weather_occurs' = [k \in 1..n_simulations |-> Occurs(u[k], WEATHER_PROB)]
  /\ draws' = draws + n_simulations
  /\ pc' = "strike"
  /\ UNCHANGED <<n_simulations, queuing_delays, strike_occurs,
                 total_external_delay, total_delivery_times, outcome>>
  /\ UNCHANGED <<configVars, queueVars, summary, seedVars>>

\* Line 54.
DrawStrike ==
  /\ pc = "strike"
  /\ \E u \in RandBatches(n_simulations) :
       strike_occurs' = [k \in 1..n_simulations |-> Occurs(u[k], STRIKE_PROB)]
  /\ draws' = draws + n_simulations
  /\ pc' = "compose"
  /\ UNCHANGED <<n_simulations, queuing_delays, weather_occurs,
                 total_external_delay, total_delivery_times, outcome>>
  /\ UNCHANGED <<configVars, queueVars, summary, seedVars>>

\* Lines 56-57 for given arrays whose lengths can be broadcast together.
ExternalDelays(wocc, wdays, socc, sdays) ==
  [k \in 1..BroadcastLen(Len(wocc), Len(wdays)) |->
     ExternalDelay(At(wocc, k), At(wdays, k), At(socc, k), At(sdays, k))]

\* Line 60 for given arrays.
TotalDeliveryTimes(queuing, external) ==
  [k \in 1..BroadcastLen(Len(queuing), Len(external)) |->
     TotalDeliveryTime(At(queuing, k), At(external, k))]

\* Lines 56-62 for given queueing delays and occurrence flags: the three
\* returned sequences, or the ValueError numpy raises when n_simulations
\* and N_SIMULATIONS cannot be broadcast together.
ComposeResult(queuing, wocc, socc) ==
  IF BroadcastLen(Len(queuing), N_SIMULATIONS) < 0
  THEN [outcome |-> "ValueError", totals |-> <<>>, queuing |-> <<>>,
        external |-> <<>>]
  ELSE LET external == ExternalDelays(wocc, WEATHER_DELAY_DAYS,
                                      socc, STRIKE_DELAY_DAYS)
       IN  [outcome |-> "returned",
            totals |-> TotalDeliveryTimes(queuing, external),
            queuing |-> queuing, external |-> external]

\* Lines 56-62.
Compose ==
  /\ pc = "compose"
  /\ pc' = "idle"
  /\ LET r == ComposeResult(queuing_delays, weather_occurs, strike_occurs)
     IN  /\ outcome' = r.outcome
         /\ queuing_delays' = r.queuing
         /\ total_external_delay' = r.external
         /\ total_delivery_times' = r.totals
  /\ UNCHANGED <<n_simulations, weather_occurs, strike_occurs, draws>>
  /\ UNCHANGED <<configVars, queueVars, summary, seedVars>>

\* Lines 65-71: the script has run the engine with N_SIMULATIONS and prints
\* the summary of total_times.  No statement of these lines raises.
StatisticalSummary ==
  /\ pc = "idle"
  /\ outcome = "returned"
  /\ n_simulations = N_SIMULATIONS
  /\ summary.status = "none"
  /\ summary' = [status |-> "completed",
                 mean |-> Mean(total_delivery_times),
                 median |-> Median(total_delivery_times),
                 over3 |-> Mean(Exceeds(total_delivery_times, 3)),
                 over5 |-> Mean(Exceeds(total_delivery_times, 5))]
  /\ UNCHANGED <<configVars, queueVars, engineVars, seedVars>>

Next == EngineCall \/ DrawWeather \/ DrawStrike \/ Compose \/ StatisticalSummary

Spec == Init /\ [][Next]_vars

SpecAnyParams == InitAnyParams /\ [][Next]_vars

\* ------------------------------------------- the global generator np.random
\* Every sampling call of the source draws from numpy's process-wide
\* generator.  It is modelled as a deterministic generator: a state, a step
\* function, and a raw value read from the state; one sample consumes one
\* step.  (A 16-state linear congruential generator stands for MT19937.)
Seeds == 0..15

RngNext(s) == ((5 * s) + 3) % 16

RECURSIVE RngAdvance(_, _)
\* The state k samples after state s.
RngAdvance(s, k) == IF k = 0 THEN s ELSE RngAdvance(RngNext(s), k - 1)

\* The raw value of the sample drawn in state s.
RngRaw(s) == s \div 4

\* The raw values of the n samples drawn from state s.
RngBatch(s, n) == [k \in 1..n |-> RngRaw(RngAdvance(s, k))]

\* np.random.exponential, np.random.rand and np.random.randint batches as
\* functions of the generator state.
ExponentialFrom(s, n) == [k \in 1..n |-> RngBatch(s, n)[k] % (MaxSample + 1)]
RandFrom(s, n) == [k \in 1..n |-> RngBatch(s, n)[k] % ProbScale]
RandIntFrom(s, low, high, n) ==
  [k \in 1..n |-> low + (RngBatch(s, n)[k] % (high - low))]

\* The module loaded in a process whose generator was seeded with seed:
\* lines 10 and 13 draw the two magnitude arrays from it.
InitSeeded ==
  /\ seed \in Seeds
  /\ N_SIMULATIONS \in 0..MaxN
  /\ WEATHER_DELAY_DAYS = RandIntFrom(seed, 1, 3, N_SIMULATIONS)
  /\ STRIKE_DELAY_DAYS =
       RandIntFrom(RngAdvance(seed, N_SIMULATIONS), 2, 4, N_SIMULATIONS)
  /\ rng_state = RngAdvance(seed, 2 * N_SIMULATIONS)
  /\ runs = <<>>
  /\ WEATHER_PROB \in 0..ProbScale
  /\ STRIKE_PROB \in 0..ProbScale
  /\ ARRIVAL_RATE = 500
  /\ SERVICE_RATE = 550
  /\ QueueIdle
  /\ EngineIdle
  /\ summary = NoSummary

\* Lines 48-62 as one step, every sample taken from the global generator in
\* the order of lines 26, 29, 53 and 54.  The run is recorded with the
\* generator state it started from.
SeededRun ==
  /\ Len(runs) < MaxRuns
  /\ \E n \in 0..MaxN :
       LET inter == ExponentialFrom(rng_state, n)
           service == ExponentialFrom(RngAdvance(rng_state, n), n)
           wocc == [k \in 1..n |->
                      Occurs(RandFrom(RngAdvance(rng_state, 2 * n), n)[k],
                             WEATHER_PROB)]
           socc == [k \in 1..n |->
                      Occurs(RandFrom(RngAdvance(rng_state, 3 * n), n)[k],
                             STRIKE_PROB)]
           r == ComposeResult(SimulateHubQueue(inter, service), wocc, socc)
       IN  /\ runs' = Append(runs, [n |-> n, seed |-> seed,
                                    start |-> rng_state, result |-> r])
           /\ rng_state' = RngAdvance(rng_state, 4 * n)
  /\ UNCHANGED <<seed, configVars, queueVars, engineVars, summary>>

NextSeeded == SeededRun

SpecSeeded == InitSeeded /\ [][NextSeeded]_vars

\* ------------------------------------------------------------------ claims
\* The parcels the loop of simulate_hub_queue has processed so far.
Processed == IF queue_pc \in {"loop", "returned"} THEN 1..i ELSE {}

\* C1: at every step of the loop and at the return, every processed parcel
\* k starts service no earlier than it arrives and departs no earlier than
\* it starts; every processed parcel k > 1 starts service no earlier than
\* parcel k-1 departs, namely at the later of its arrival and that departure.
C1_FifoOrdering ==
  \A k \in Processed :
    /\ start_service_times[k] >= arrival_times[k]
    /\ departure_times[k] >= start_service_times[k]
    /\ k > 1 =>
         /\ start_service_times[k] >= departure_times[k - 1]
         /\ \/ start_service_times[k] = arrival_times[k]
            \/ start_service_times[k] = departure_times[k - 1]

\* C1 witness: a returned batch of three parcels or more in which one parcel
\* waited for its predecessor to depart and another found the server idle.
C1_Witness ==
  /\ queue_pc = "returned"
  /\ num_parcels >= 3
  /\ \E k \in 2..num_parcels :
       /\ start_service_times[k] = departure_times[k - 1]
       /\ start_service_times[k] > arrival_times[k]
  /\ \E k \in 2..num_parcels :
       /\ start_service_times[k] = arrival_times[k]
       /\ start_service_times[k] > departure_times[k - 1]

\* C2: with arrival_rate > 0 and service_rate > 0, every element of
\* waiting_times is >= 0 at every step of the loop, and every element of the
\* returned waiting_days is >= 0.
C2_WaitingNonNegative ==
  (ARRIVAL_RATE > 0 /\ SERVICE_RATE > 0) =>
    /\ \A k \in DOMAIN waiting_times : waiting_times[k] >= 0
    /\ \A k \in DOMAIN waiting_days : waiting_days[k] >= 0

\* C2 witness: a returned batch, from positive rates, in which some parcel
\* waited a positive time.
C2_Witness ==
  /\ ARRIVAL_RATE > 0
  /\ SERVICE_RATE > 0
  /\ queue_pc = "returned"
  /\ num_parcels >= 2
  /\ \E k \in DOMAIN waiting_days : waiting_days[k] > 0

\* C6: once the first parcel is processed its service start is its arrival
\* time and its waiting time is 0; a returned batch has waiting_days[1] = 0,
\* and for num_parcels = 1 the returned sequence is <<0>>.
C6_FirstParcelNoWait ==
  /\ 1 \in Processed =>
       /\ start_service_times[1] = arrival_times[1]
       /\ waiting_times[1] = 0
  /\ (queue_pc = "returned" /\ num_parcels >= 1) => waiting_days[1] = 0
  /\ (queue_pc = "returned" /\ num_parcels = 1) => waiting_days = <<0>>

\* C6 witness: a returned batch of one parcel that arrived after time 0 and
\* needed a positive service time.
C6_Witness ==
  /\ queue_pc = "returned"
  /\ num_parcels = 1
  /\ arrival_times[1] > 0
  /\ service_times[1] > 0

\* The engine has returned its three sequences.
Returned == pc = "idle" /\ outcome = "returned"

\* C3: every element of the returned total_delivery_times is at least
\* BASE_DELIVERY_TIME days.
C3_TotalAtLeastBase ==
  Returned =>
    \A k \in DOMAIN total_delivery_times :
      total_delivery_times[k] >= BASE_DELIVERY_TIME * DayDen

\* C3 witness: a returned result with one parcel delivered in exactly the
\* base time and one delivered later.
C3_Witness ==
  /\ Returned
  /\ \E k \in DOMAIN total_delivery_times :
       total_delivery_times[k] = BASE_DELIVERY_TIME * DayDen
  /\ \E k \in DOMAIN total_delivery_times :
       total_delivery_times[k] > BASE_DELIVERY_TIME * DayDen

\* C4 (as claimed): a call with n >= 1 ends by returning three sequences of
\* exactly n elements each, element k of the totals being computed from
\* element k of the queueing delays and element k of the external delays.
C4_ThreeAlignedSequencesOfLengthN ==
  (pc = "idle" /\ outcome # "none" /\ n_simulations >= 1) =>
    /\ outcome = "returned"
    /\ Len(total_delivery_times) = n_simulations
    /\ Len(queuing_delays) = n_simulations
    /\ Len(total_external_delay) = n_simulations
    /\ \A k \in 1..n_simulations :
         total_delivery_times[k] =
           BASE_DELIVERY_TIME * DayDen + queuing_delays[k]
             + total_external_delay[k] * DayDen

\* C5: when WEATHER_PROB and STRIKE_PROB are both 0, every element of the
\* returned external delays is 0, whatever the pre-drawn magnitudes, and
\* every total is the base time plus that parcel's queueing delay.
C5_NoDisruptionMeansBasePlusQueue ==
  (Returned /\ WEATHER_PROB = 0 /\ STRIKE_PROB = 0) =>
    /\ \A k \in DOMAIN total_external_delay : total_external_delay[k] = 0
    /\ \A k \in DOMAIN total_delivery_times :
         total_delivery_times[k] =
           BASE_DELIVERY_TIME * DayDen
             + (IF Len(queuing_delays) = 1 THEN queuing_delays[1]
                ELSE queuing_delays[k])

\* C5 witness: a returned result of two parcels or more with both
\* probabilities 0, pre-drawn magnitudes present, and a positive queueing
\* delay.
C5_Witness ==
  /\ Returned
  /\ WEATHER_PROB = 0
  /\ STRIKE_PROB = 0
  /\ N_SIMULATIONS >= 2
  /\ Len(total_delivery_times) >= 2
  /\ \E k \in DOMAIN queuing_delays : queuing_delays[k] > 0

\* The parameters violate a domain constraint.
ParamsInvalid ==
  \/ ARRIVAL_RATE <= 0
  \/ SERVICE_RATE <= 0
  \/ WEATHER_PROB < 0
  \/ WEATHER_PROB > ProbScale
  \/ STRIKE_PROB < 0
  \/ STRIKE_PROB > ProbScale

\* C7 (as claimed): a run with invalid parameters ends in an error (any
\* raised error is taken for InvalidParameterError, a class the source does
\* not define), raised before any sample is drawn, with no result sequence.
C7_InvalidParametersFailFast ==
  (pc = "idle" /\ outcome # "none" /\ ParamsInvalid) =>
    /\ outcome \in {"ZeroDivisionError", "ValueError", "InvalidParameterError"}
    /\ draws = 0
    /\ total_delivery_times = <<>>
    /\ queuing_delays = <<>>
    /\ total_external_delay = <<>>

\* C8 (as claimed): with N_SIMULATIONS = 0 the statistical summary fails
\* with DegenerateBatchError; it does not complete reporting NaN.
C8_EmptyBatchSummaryFails ==
  (N_SIMULATIONS = 0 /\ summary.status # "none") =>
    /\ summary.status = "DegenerateBatchError"
    /\ summary.mean # NaN
    /\ summary.median # NaN

\* The operands of element k of the external delays, after broadcasting.
WeatherAt(k) == IF Len(weather_occurs) = 1 THEN weather_occurs[1] ELSE weather_occurs[k]
StrikeAt(k) == IF Len(strike_occurs) = 1 THEN strike_occurs[1] ELSE strike_occurs[k]
WeatherDaysAt(k) ==
  IF Len(WEATHER_DELAY_DAYS) = 1 THEN WEATHER_DELAY_DAYS[1] ELSE WEATHER_DELAY_DAYS[k]
StrikeDaysAt(k) ==
  IF Len(STRIKE_DELAY_DAYS) = 1 THEN STRIKE_DELAY_DAYS[1] ELSE STRIKE_DELAY_DAYS[k]

\* C10: every weather magnitude lies in 1..2 days and every strike magnitude
\* in 2..3 days, and the external delay of every parcel is its weather
\* magnitude if weather occurred plus its strike magnitude if a strike
\* occurred: 0 when neither occurred, 3..5 days when both did.
C10_ExternalDelayIsSumOfOccurredMagnitudes ==
  /\ \A k \in DOMAIN WEATHER_DELAY_DAYS : WEATHER_DELAY_DAYS[k] \in 1..2
  /\ \A k \in DOMAIN STRIKE_DELAY_DAYS : STRIKE_DELAY_DAYS[k] \in 2..3
  /\ Returned =>
       \A k \in DOMAIN total_external_delay :
         /\ total_external_delay[k] =
              (IF WeatherAt(k) THEN WeatherDaysAt(k) ELSE 0)
                + (IF StrikeAt(k) THEN StrikeDaysAt(k) ELSE 0)
         /\ (WeatherAt(k) /\ StrikeAt(k)) => total_external_delay[k] \in 3..5
         /\ (~WeatherAt(k) /\ ~StrikeAt(k)) => total_external_delay[k] = 0

\* C10 witness: a returned result in which both events hit one parcel and
\* neither hit another.
C10_Witness ==
  /\ Returned
  /\ \E k \in DOMAIN total_external_delay :
       WeatherAt(k) /\ StrikeAt(k) /\ total_external_delay[k] >= 3
  /\ \E k \in DOMAIN total_external_delay :
       ~WeatherAt(k) /\ ~StrikeAt(k)

\* C9 (as claimed): two runs of the engine with the same seed and the same
\* parameters return identical totals, queueing delays and external delays
\* (each run drawing from a source of its own, seeded for it, and sharing
\* no sampling state with the other).
C9_SameSeedSameResult ==
  \A a, b \in DOMAIN runs :
    (runs[a].seed = runs[b].seed /\ runs[a].n = runs[b].n) =>
      runs[a].result = runs[b].result

====
